---- MODULE Spec2Model ----
(***************************************************************************)
(* clip-extractor (src/app.py): the handlers analyze_video_with_gemini     *)
(* ("propose"), extract_clips ("extract"), clear_clips_folder ("clear")    *)
(* and refresh_clips_gallery ("refresh") over the two globals              *)
(* clip_suggestions and current_video_path and the clips directory.        *)
(*                                                                         *)
(* A response text is a sequence of tokens; json.loads and the two regular *)
(* expressions of the parser are computed on that sequence.                *)
(***************************************************************************)
EXTENDS Integers, Sequences, FiniteSets, TLC

(***************************************************************************)
(* Tokens of a response text.                                              *)
(***************************************************************************)
LB == "["
RB == "]"
COMMA == ","
QUOTE == "dquote"
FENCE_JSON == "fence_json"
FENCE == "fence"
WS == "newline"
PROSE == "p"
\* LC is the text  {"start":1,"end":6,"title":  and a JSON string follows, then RC
LC == "{start_1_end_6_title:"
RC == "}"
\* whole JSON objects and scalars, each one token (no bracket, quote or fence inside)
OBJ_A == "{title_A_start_1_end_6}"
OBJ_INV == "{start_5_end_3_title_Bad}"
OBJ_NOSTART == "{title_T}"
OBJ_STR == "{title_S_start_x_end_3}"
OBJ_ZERO == "{start_2_end_2_description_d}"
OBJ_B == "{title_B_start_7_end_9_description_d}"
NUM_7 == "7"
NULL == "null"

(***************************************************************************)
(* JSON values as Python holds them after json.loads.                      *)
(***************************************************************************)
Absent == [k |-> "absent"]
Num(n) == [k |-> "num", n |-> n]
Str(s) == [k |-> "str", s |-> s]

JArray(items) == [kind |-> "array", items |-> items]
JObject(start, end, title, description) ==
    [kind |-> "object", start |-> start, end |-> end, title |-> title,
     description |-> description]
JString(s) == [kind |-> "string", s |-> s]
JNumber(n) == [kind |-> "number", n |-> n]
JNull == [kind |-> "null"]

AtomValue(t) ==
    CASE t = OBJ_A -> JObject(Num(1), Num(6), Str(<<"A">>), Absent)
      [] t = OBJ_INV -> JObject(Num(5), Num(3), Str(<<"B", "a", "d">>), Absent)
      [] t = OBJ_NOSTART -> JObject(Absent, Absent, Str(<<"T">>), Absent)
      [] t = OBJ_STR -> JObject(Str(<<"x">>), Num(3), Str(<<"S">>), Absent)
      [] t = OBJ_ZERO -> JObject(Num(2), Num(2), Absent, Str(<<"d">>))
      [] t = OBJ_B -> JObject(Num(7), Num(9), Str(<<"B">>), Str(<<"d">>))
      [] t = NUM_7 -> JNumber(7)
      [] t = NULL -> JNull

Atoms == {OBJ_A, OBJ_B, OBJ_INV, OBJ_NOSTART, OBJ_STR, OBJ_ZERO, NUM_7, NULL}

(***************************************************************************)
(* json.loads on a token sequence: optional whitespace, one value,         *)
(* optional whitespace, end of text.  A value is an atom, a string (quote  *)
(* to the next quote), an object LC string RC, or an array of values       *)
(* separated by commas.                                                    *)
(***************************************************************************)
RECURSIVE SkipWs(_, _)
SkipWs(s, i) == IF i <= Len(s) /\ s[i] = WS THEN SkipWs(s, i + 1) ELSE i

RECURSIVE NextQuote(_, _)
NextQuote(s, i) ==
    IF i > Len(s) THEN 0 ELSE IF s[i] = QUOTE THEN i ELSE NextQuote(s, i + 1)

ParseFail == [ok |-> FALSE, v |-> JNull, next |-> 0]
ParseOk(v, next) == [ok |-> TRUE, v |-> v, next |-> next]

ParseString(s, i) ==
    IF i > Len(s) \/ s[i] # QUOTE THEN ParseFail
    ELSE LET j == NextQuote(s, i + 1)
         IN  IF j = 0 THEN ParseFail
             ELSE ParseOk(JString(SubSeq(s, i + 1, j - 1)), j + 1)

RECURSIVE ParseValue(_, _), ParseItems(_, _, _)
ParseValue(s, i) ==
    IF i > Len(s) THEN ParseFail
    ELSE IF s[i] \in Atoms THEN ParseOk(AtomValue(s[i]), i + 1)
    ELSE IF s[i] = QUOTE THEN ParseString(s, i)
    ELSE IF s[i] = LC THEN
        LET r == ParseString(s, SkipWs(s, i + 1))
            k == SkipWs(s, r.next)
        IN  IF r.ok /\ k <= Len(s) /\ s[k] = RC
            THEN ParseOk(JObject(Num(1), Num(6), Str(r.v.s), Absent), k + 1)
            ELSE ParseFail
    ELSE IF s[i] = LB THEN
        LET j == SkipWs(s, i + 1)
        IN  IF j <= Len(s) /\ s[j] = RB THEN ParseOk(JArray(<<>>), j + 1)
            ELSE ParseItems(s, j, <<>>)
    ELSE ParseFail

ParseItems(s, i, acc) ==
    LET r == ParseValue(s, i)
        j == SkipWs(s, r.next)
    IN  IF ~r.ok \/ j > Len(s) THEN ParseFail
        ELSE IF s[j] = COMMA
             THEN ParseItems(s, SkipWs(s, j + 1), Append(acc, r.v))
        ELSE IF s[j] = RB THEN ParseOk(JArray(Append(acc, r.v)), j + 1)
        ELSE ParseFail

json_loads(s) ==
    LET r == ParseValue(s, SkipWs(s, 1))
    IN  IF r.ok /\ SkipWs(s, r.next) > Len(s) THEN [ok |-> TRUE, v |-> r.v]
        ELSE [ok |-> FALSE, v |-> JNull]

(***************************************************************************)
(* The fenced-block search of line 175 (FENCE_JSON, whitespace, a group    *)
(* from "[" lazily to "]", whitespace, FENCE): the leftmost FENCE_JSON     *)
(* that is followed, after whitespace, by "[", and from there the nearest  *)
(* "]" that is followed, after whitespace, by three backticks (FENCE, or   *)
(* the start of another FENCE_JSON).  The result is group(1), or no match. *)
(***************************************************************************)
NoMatch == [found |-> FALSE, group |-> <<>>]
Match(s, a, b) == [found |-> TRUE, group |-> SubSeq(s, a, b)]

Ticks(s, i) == i <= Len(s) /\ s[i] \in {FENCE, FENCE_JSON}

FenceEnds(s, a) ==
    {k \in (a + 1)..Len(s) : s[k] = RB /\ Ticks(s, SkipWs(s, k + 1))}

FenceStarts(s) ==
    {p \in 1..Len(s) :
        /\ s[p] = FENCE_JSON
        /\ LET a == SkipWs(s, p + 1)
           IN  a <= Len(s) /\ s[a] = LB /\ FenceEnds(s, a) # {}}

Min(S) == CHOOSE x \in S : \A y \in S : x <= y
Max(S) == CHOOSE x \in S : \A y \in S : x >= y

fenced_search(s) ==
    IF FenceStarts(s) = {} THEN NoMatch
    ELSE LET a == SkipWs(s, Min(FenceStarts(s)) + 1)
         IN  Match(s, a, Min(FenceEnds(s, a)))

(***************************************************************************)
(* The bracket search of line 181 (greedy): from the first "[" to the last *)
(* "]" of the text, when that "]" comes after it.                          *)
(***************************************************************************)
bracket_search(s) ==
    LET opens == {i \in 1..Len(s) : s[i] = LB}
        closes == {i \in 1..Len(s) : s[i] = RB}
    IN  IF opens = {} \/ closes = {} \/ Max(closes) < Min(opens) THEN NoMatch
        ELSE Match(s, Min(opens), Max(closes))

(***************************************************************************)
(* Python's view of a parsed value: truth value, len(), iteration.         *)
(***************************************************************************)
ObjKeys(o) ==
    LET key(f, name) == IF f = Absent THEN <<>> ELSE <<JString(<<name>>)>>
    IN  key(o.start, "start") \o key(o.end, "end") \o key(o.title, "title")
            \o key(o.description, "description")

\* len(v) raises TypeError for a number and for None
HasLen(v) == v.kind \in {"array", "object", "string"}

PyLen(v) ==
    CASE v.kind = "array" -> Len(v.items)
      [] v.kind = "object" -> Len(ObjKeys(v))
      [] v.kind = "string" -> Len(v.s)
      [] OTHER -> 0

\* "not clip_suggestions"
Falsy_NoGuard(v) == FALSE
Falsy(v) ==
    CASE v.kind = "null" -> TRUE
      [] v.kind = "number" -> v.n = 0
      [] OTHER -> PyLen(v) = 0

\* enumerate(v) raises TypeError for a number, a boolean and None
Iterable(v) == v.kind \in {"array", "object", "string"}

\* what enumerate(v) walks: list elements, dict keys (in the order start, end,
\* title, description here), characters of a string
IterItems(v) ==
    CASE v.kind = "array" -> v.items
      [] v.kind = "object" -> ObjKeys(v)
      [] v.kind = "string" -> [k \in 1..Len(v.s) |-> JString(<<v.s[k]>>)]
      [] OTHER -> <<>>

(***************************************************************************)
(* State.                                                                  *)
(*   clip_suggestions, current_video_path   the two globals                *)
(*   clips_dir, files    downloads/clips: whether it exists, its files     *)
(*   an      the running analyze_video_with_gemini call: its position,     *)
(*           locals, the outcome of each service call, the waits, the      *)
(*           response text, the parsing strategies tried, and the          *)
(*           returned value                                                *)
(*   ex      the running extract_clips calls, one record per UI session    *)
(*   cl, rf  the clear_clips_folder / refresh_clips_gallery calls          *)
(* A call that has returned stays at "done", its returned value in view,   *)
(* until the UI has shown it (the Return steps).                           *)
(***************************************************************************)
VARIABLES clip_suggestions, current_video_path, clips_dir, files, an, ex, cl, rf

vars == <<clip_suggestions, current_video_path, clips_dir, files, an, ex, cl, rf>>

None == "None"
Sessions == {1, 2}
Urls == {"url1", "url2"}
\* ydl.prepare_filename(info): the local file of a source URL
PathOf(url) == IF url = "url1" THEN "downloads/video1.mp4" ELSE "downloads/video2.mp4"

max_retries == 3
base_retry_delay == 2

NoOut == [kind |-> "none", n |-> 0, text |-> <<>>]
Out(kind, n, text) == [kind |-> kind, n |-> n, text |-> text]

AnIdle ==
    [pc |-> "idle", attempt |-> 0, retry_delay |-> base_retry_delay, calls |-> <<>>,
     sleeps |-> <<>>, response |-> <<>>, tried |-> <<>>, out |-> NoOut]

NoResult == [status |-> "none", clips |-> <<>>]
ExIdle ==
    [pc |-> "idle", url |-> None, items |-> <<>>, i |-> 0, created_clips |-> <<>>,
     errors |-> <<>>, invocations |-> <<>>, fetches |-> 0, result |-> NoResult]

\* removed: the files unlinked by the call; failed: the file whose unlink raised
ClIdle == [pc |-> "idle", out |-> "none", removed |-> {}, failed |-> {}]
ClDone(out, removed, failed) ==
    [pc |-> "done", out |-> out, removed |-> removed, failed |-> failed]
RfIdle == [pc |-> "idle", out |-> {}]

Init ==
    /\ clip_suggestions = JArray(<<>>)
    /\ current_video_path = None
    /\ clips_dir = FALSE
    /\ files = {}
    /\ an = AnIdle
    /\ ex = [t \in Sessions |-> ExIdle]
    /\ cl = ClIdle
    /\ rf = RfIdle

(***************************************************************************)
(* analyze_video_with_gemini                                               *)
(***************************************************************************)
\* lines 168-188: what the parsing block stores and returns for a response text
Parsed(store, value, out, tried) ==
    [store |-> store, value |-> value, out |-> out, tried |-> tried]

\* "clip_suggestions = <value>" and then the return statement with len(clip_suggestions)
Stored(value, shown, tried) ==
    Parsed(TRUE, value,
           IF HasLen(value) THEN Out("found", PyLen(value), shown)
           ELSE Out("raised", 0, <<>>),
           tried)

ParseResponse(text) ==
    LET r1 == json_loads(text)
        m2 == fenced_search(text)
        r2 == json_loads(m2.group)
        m3 == bracket_search(text)
        r3 == json_loads(m3.group)
    IN  IF r1.ok THEN Stored(r1.v, text, <<1>>)
        ELSE IF m2.found THEN
            IF r2.ok THEN Stored(r2.v, m2.group, <<1, 2>>)
            ELSE Parsed(FALSE, JNull, Out("parse_error", 0, text), <<1, 2>>)
        ELSE IF m3.found THEN
            IF r3.ok THEN Stored(r3.v, m3.group, <<1, 2, 3>>)
            ELSE Parsed(FALSE, JNull, Out("parse_error", 0, text), <<1, 2, 3>>)
        ELSE Parsed(FALSE, JNull, Out("no_array", 0, text), <<1, 2, 3>>)

(***************************************************************************)
(* Response texts the AI service may send.                                 *)
(***************************************************************************)
MaxLen == 2
MaxTextLen == 2

SeqsUpTo(S, n) == UNION {[1..k -> S] : k \in 0..n}

\* the text of one array element, as json.dumps would write it
ElemText(v) ==
    IF \E t \in Atoms : AtomValue(t) = v
    THEN <<CHOOSE t \in Atoms : AtomValue(t) = v>>
    ELSE <<LC, QUOTE>> \o v.title.s \o <<QUOTE, RC>>

RECURSIVE ItemsText(_)
ItemsText(A) ==
    IF Len(A) = 0 THEN <<>>
    ELSE IF Len(A) = 1 THEN ElemText(A[1])
    ELSE ElemText(A[1]) \o <<COMMA, WS>> \o ItemsText(Tail(A))

Serialize(A) == <<LB>> \o ItemsText(A) \o <<RB>>

\* the three shapes of a response that carries the array A
BareText(A) == Serialize(A)
FencedText(A) == <<PROSE, WS, FENCE_JSON, WS>> \o Serialize(A) \o <<WS, FENCE>>
EmbeddedText(A) == <<PROSE, WS>> \o Serialize(A) \o <<WS, PROSE>>

\* a suggestion whose title is  ]  followed by three backticks
BracketTitled == JObject(Num(1), Num(6), Str(<<RB, FENCE>>), Absent)

ValidElems == {AtomValue(OBJ_A), AtomValue(OBJ_B), BracketTitled}
ValidArrays == SeqsUpTo(ValidElems, MaxLen)

ShapedTexts ==
    UNION {{BareText(A), FencedText(A), EmbeddedText(A)} :
              A \in SeqsUpTo(ValidElems \cup {AtomValue(OBJ_INV)}, MaxLen)}

\* an array of two strings, in prose; the strings hold a fence and brackets
StringsWithFence ==
    <<PROSE, LB, QUOTE, FENCE_JSON, LB, QUOTE, COMMA, QUOTE, RB, FENCE, QUOTE, RB>>

OddTexts ==
    { <<>>, <<PROSE>>, <<NUM_7>>, <<NULL>>, <<OBJ_A>>, <<QUOTE, PROSE, QUOTE>>,
      <<FENCE_JSON, LB, OBJ_A, COMMA, RB, FENCE>>,
      <<FENCE_JSON, LB, PROSE, RB, FENCE, LB, OBJ_A, RB>>,
      <<LB, OBJ_A, RB, PROSE, LB, OBJ_A, RB>>,
      <<FENCE_JSON, OBJ_A, FENCE>>,
      <<LB, PROSE, RB, FENCE_JSON, LB, OBJ_A, RB, FENCE>>,
      <<LB, LB, OBJ_A, RB, RB>>,
      <<LB, OBJ_STR, COMMA, OBJ_ZERO, RB>>,
      StringsWithFence }

ShortTexts ==
    SeqsUpTo({LB, RB, COMMA, FENCE_JSON, FENCE, WS, PROSE, OBJ_A}, MaxTextLen)

AllTexts == ShapedTexts \cup OddTexts \cup ShortTexts

\* the responses of the full program's runs: arrays alone, and what is stored
\* when the response is no array
CoreElems == {AtomValue(OBJ_A), AtomValue(OBJ_INV), AtomValue(OBJ_NOSTART)}
ThreeClips == <<AtomValue(OBJ_A), AtomValue(OBJ_A), AtomValue(OBJ_A)>>

CoreTexts ==
    {BareText(A) : A \in SeqsUpTo(CoreElems, MaxLen) \cup {ThreeClips}}
        \cup {<<NUM_7>>, <<NULL>>, <<OBJ_A>>, <<PROSE>>}

\* line 157
ShouldRetry_Always(attempt) == TRUE
ShouldRetry(attempt) == attempt < max_retries - 1

\* line 160: retry_delay *= 2
NextDelay_Unchanged(delay) == delay
NextDelay(delay) == delay * 2

AnalyzeStart ==
    /\ an.pc = "idle"
    /\ an' = [AnIdle EXCEPT !.pc = "calling"]
    /\ UNCHANGED <<clip_suggestions, current_video_path, clips_dir, files, ex, cl, rf>>

\* the call raised ConnectionResetError, ConnectionError or OSError
CallTransient ==
    /\ an.pc = "calling"
    /\ an.attempt < max_retries
    /\ LET calls == Append(an.calls, "transient")
       IN  IF ShouldRetry(an.attempt)
           THEN an' = [an EXCEPT !.calls = calls,
                                 !.sleeps = Append(an.sleeps, an.retry_delay),
                                 !.retry_delay = NextDelay(an.retry_delay),
                                 !.attempt = an.attempt + 1]
           ELSE an' = [an EXCEPT !.calls = calls, !.pc = "done",
                                 !.out = Out("conn_failed", max_retries, <<>>)]
    /\ UNCHANGED <<clip_suggestions, current_video_path, clips_dir, files, ex, cl, rf>>

\* the call raised any other exception
CallFatal ==
    /\ an.pc = "calling"
    /\ an.attempt < max_retries
    /\ an' = [an EXCEPT !.calls = Append(an.calls, "fatal"), !.pc = "done",
                        !.out = Out("api_error", 0, <<>>)]
    /\ UNCHANGED <<clip_suggestions, current_video_path, clips_dir, files, ex, cl, rf>>

\* the call returned a response; its text is parsed
CallResponds(texts) ==
    /\ an.pc = "calling"
    /\ an.attempt < max_retries
    /\ \E text \in texts :
          LET p == ParseResponse(text)
          IN  /\ an' = [an EXCEPT !.calls = Append(an.calls, "ok"), !.pc = "done",
                                  !.response = text, !.tried = p.tried,
                                  !.out = p.out]
              /\ clip_suggestions' = IF p.store THEN p.value ELSE clip_suggestions
    /\ UNCHANGED <<current_video_path, clips_dir, files, ex, cl, rf>>

\* the handler has returned (or raised) and the UI is idle again
AnalyzeReturn ==
    /\ an.pc = "done"
    /\ an' = AnIdle
    /\ UNCHANGED <<clip_suggestions, current_video_path, clips_dir, files, ex, cl, rf>>

(***************************************************************************)
(* extract_clips                                                           *)
(***************************************************************************)
\* line 238: characters kept in a file name (c.isalnum() or c in ' -_')
KeptChars ==
    {"A", "B", "C", "S", "T", "a", "d", "i", "l", "p", "x", "0", "1", "2", "3", "4",
     "5", "6", "7", "8", "9", " ", "-", "_"}

title_limit == 30

RECURSIVE Filter(_)
Filter(s) ==
    IF s = <<>> THEN <<>>
    ELSE (IF Head(s) \in KeptChars THEN <<Head(s)>> ELSE <<>>) \o Filter(Tail(s))

RECURSIVE RStrip(_)
RStrip(s) ==
    IF s # <<>> /\ s[Len(s)] = " " THEN RStrip(SubSeq(s, 1, Len(s) - 1)) ELSE s

\* "".join(c for c in title if ...).rstrip()[:30]
safe_title(title) ==
    LET t == RStrip(Filter(title))
    IN  SubSeq(t, 1, IF Len(t) < title_limit THEN Len(t) ELSE title_limit)

Digit(n) == CASE n = 0 -> "0" [] n = 1 -> "1" [] n = 2 -> "2" [] n = 3 -> "3"
              [] n = 4 -> "4" [] n = 5 -> "5" [] n = 6 -> "6" [] n = 7 -> "7"
              [] n = 8 -> "8" [] OTHER -> "9"

\* how an f-string writes a natural number
RECURSIVE PyStr(_)
PyStr(n) == IF n < 10 THEN <<Digit(n)>> ELSE PyStr(n \div 10) \o <<Digit(n % 10)>>

\* clip.get("title", f"Clip {i+1}"), i counted from 0
TitleOf(clip, i) ==
    IF clip.title = Absent THEN <<"C", "l", "i", "p", " ">> \o PyStr(i + 1)
    ELSE clip.title.s

\* line 239: f"clip_{i+1}_{safe_title}_{start_time}_{end_time}.mp4", its characters
clip_filename_NoIndex(i, title, start_time, end_time) ==
    <<"c", "l", "i", "p", "_", "_">> \o title \o <<"_">> \o PyStr(start_time)
        \o <<"_">> \o PyStr(end_time) \o <<".", "m", "p", "4">>
clip_filename_Fresh(i, title, start_time, end_time) ==
    LET stem == <<"c", "l", "i", "p", "_">> \o PyStr(i + 1) \o <<"_">> \o title
                    \o <<"_">> \o PyStr(start_time) \o <<"_">> \o PyStr(end_time)
        ext == <<".", "m", "p", "4">>
    IN  IF \E f \in files : f.name = stem \o ext THEN stem \o <<"_", "1">> \o ext
        ELSE stem \o ext
clip_filename(i, title, start_time, end_time) ==
    <<"c", "l", "i", "p", "_">> \o PyStr(i + 1) \o <<"_">> \o title \o <<"_">>
        \o PyStr(start_time) \o <<"_">> \o PyStr(end_time) \o <<".", "m", "p", "4">>

\* line 240: clips_dir / clip_filename, with the values the name was made from
output_path(clip, i) ==
    LET title == safe_title(TitleOf(clip, i))
    IN  [index |-> i + 1, title |-> title, start |-> clip.start.n, end |-> clip.end.n,
         name |-> clip_filename(i, title, clip.start.n, clip.end.n)]

\* lines 224-225 raise unless the item is a dict holding "start" and "end";
\* line 247 raises unless their difference can be taken
Usable(clip) ==
    /\ clip.kind = "object"
    /\ clip.start.k = "num"
    /\ clip.end.k = "num"

\* lines 243-256: the ffmpeg command line built for item i
Command(clip, i, input) ==
    [index |-> i + 1, ss |-> clip.start.n, input |-> input,
     t |-> clip.end.n - clip.start.n, output |-> output_path(clip, i)]

\* lines 263 and 266: the entry appended to errors for item i
ErrorEntry_ZeroBased(i, what) == [index |-> i, what |-> what]
ErrorEntry(i, what) == [index |-> i + 1, what |-> what]

\* line 263: a non-zero exit status lands in errors
OnNonZero_Dropped(errors, i) == errors
OnNonZero(errors, i) == Append(errors, ErrorEntry(i, "stderr"))

\* lines 211-212: current_video_path when the download raised
PathAfterFailedDownload_Reset(path) == None
PathAfterFailedDownload(path) == path

\* line 221: enumerate(clip_suggestions) is evaluated once, when the loop is
\* entered, and the loop walks that list object; an assignment to the global
\* made later binds the name to another object
LoopItems_Reread(entered, suggestions) == IterItems(suggestions)
LoopItems(entered, suggestions) == entered

ExtractStart(t, url) ==
    /\ ex[t].pc = "idle"
    /\ IF Falsy(clip_suggestions)
       THEN ex' = [ex EXCEPT ![t] = [ExIdle EXCEPT !.pc = "done", !.url = url,
                        !.result = [status |-> "no_suggestions", clips |-> <<>>]]]
       ELSE ex' = [ex EXCEPT ![t] = [ExIdle EXCEPT !.pc = "download", !.url = url]]
    /\ UNCHANGED <<clip_suggestions, current_video_path, clips_dir, files, an, cl, rf>>

\* lines 198-212, the download raised
DownloadFails(t) ==
    /\ ex[t].pc = "download"
    /\ ex' = [ex EXCEPT ![t].pc = "done", ![t].fetches = @ + 1,
                        ![t].result = [status |-> "download_error", clips |-> <<>>]]
    /\ current_video_path' = PathAfterFailedDownload(current_video_path)
    /\ UNCHANGED <<clip_suggestions, clips_dir, files, an, cl, rf>>

\* lines 198-221, the download succeeded: the path is stored, the clips directory
\* made and the loop entered over what clip_suggestions is bound to now
\* (enumerate raises TypeError for a number or a boolean)
DownloadSucceeds(t) ==
    /\ ex[t].pc = "download"
    /\ current_video_path' = PathOf(ex[t].url)
    /\ clips_dir' = TRUE
    /\ IF Iterable(clip_suggestions)
       THEN ex' = [ex EXCEPT ![t].pc = "loop", ![t].fetches = @ + 1,
                             ![t].items = IterItems(clip_suggestions)]
       ELSE ex' = [ex EXCEPT ![t].pc = "done", ![t].fetches = @ + 1,
                             ![t].result = [status |-> "raised", clips |-> <<>>]]
    /\ UNCHANGED <<clip_suggestions, files, an, cl, rf>>

\* lines 222-266, an item that raises before the encoder is run
ItemRaises(t) ==
    /\ ex[t].pc = "loop"
    /\ ex[t].i < Len(LoopItems(ex[t].items, clip_suggestions))
    /\ ~Usable(LoopItems(ex[t].items, clip_suggestions)[ex[t].i + 1])
    /\ ex' = [ex EXCEPT ![t].i = @ + 1,
                        ![t].errors = Append(@, ErrorEntry(ex[t].i, "exception"))]
    /\ UNCHANGED <<clip_suggestions, current_video_path, clips_dir, files, an, cl, rf>>

\* lines 222-266, an item for which subprocess.run is called: it exits 0 (and
\* the output file is there), exits non-zero, or raises
ItemEncodes(t) ==
    /\ ex[t].pc = "loop"
    /\ ex[t].i < Len(LoopItems(ex[t].items, clip_suggestions))
    /\ Usable(LoopItems(ex[t].items, clip_suggestions)[ex[t].i + 1])
    /\ LET i == ex[t].i
           cmd == Command(LoopItems(ex[t].items, clip_suggestions)[i + 1], i,
                          current_video_path)
       IN  \E rc \in {"zero", "nonzero", "raised"} :
              LET inv == Append(ex[t].invocations, cmd @@ [rc |-> rc])
              IN  /\ ex' = [ex EXCEPT
                              ![t].i = i + 1,
                              ![t].invocations = inv,
                              ![t].created_clips =
                                  IF rc = "zero" THEN Append(@, cmd.output) ELSE @,
                              ![t].errors =
                                  CASE rc = "zero" -> @
                                    [] rc = "nonzero" -> OnNonZero(@, i)
                                    [] OTHER -> Append(@, ErrorEntry(i, "exception"))]
                  /\ files' = IF rc = "zero" THEN files \cup {cmd.output} ELSE files
    /\ UNCHANGED <<clip_suggestions, current_video_path, clips_dir, an, cl, rf>>

\* lines 268-274
ExtractFinish(t) ==
    /\ ex[t].pc = "loop"
    /\ ex[t].i >= Len(LoopItems(ex[t].items, clip_suggestions))
    /\ ex' = [ex EXCEPT ![t].pc = "done",
                        ![t].result = [status |-> "extracted", clips |-> ex[t].created_clips]]
    /\ UNCHANGED <<clip_suggestions, current_video_path, clips_dir, files, an, cl, rf>>

ExtractReturn(t) ==
    /\ ex[t].pc = "done"
    /\ ex' = [ex EXCEPT ![t] = ExIdle]
    /\ UNCHANGED <<clip_suggestions, current_video_path, clips_dir, files, an, cl, rf>>

(***************************************************************************)
(* clear_clips_folder: the files are unlinked one by one, in the order     *)
(* glob yields them (any order); an unlink that raises ends the loop, and  *)
(* the files glob had not yet yielded are never tried.  The handler has no *)
(* global statement: it cannot rebind clip_suggestions.                    *)
(***************************************************************************)
SuggestionsAfterClear_Discarded(suggestions) == JArray(<<>>)
SuggestionsAfterClear(suggestions) == suggestions

Clear ==
    /\ cl.pc = "idle"
    /\ IF ~clips_dir THEN cl' = ClDone("no_folder", {}, {}) /\ files' = files
       ELSE \/ files' = {} /\ cl' = ClDone("cleared", files, {})
            \/ \E f \in files : \E gone \in SUBSET (files \ {f}) :
                  /\ files' = files \ gone
                  /\ cl' = ClDone("error", gone, {f})
    /\ clip_suggestions' = SuggestionsAfterClear(clip_suggestions)
    /\ UNCHANGED <<current_video_path, clips_dir, an, ex, rf>>

ClearReturn ==
    /\ cl.pc = "done"
    /\ cl' = ClIdle
    /\ UNCHANGED <<clip_suggestions, current_video_path, clips_dir, files, an, ex, rf>>

(***************************************************************************)
(* refresh_clips_gallery: every file of the clips directory is an .mp4     *)
(***************************************************************************)
Refresh ==
    /\ rf.pc = "idle"
    /\ rf' = [pc |-> "done", out |-> IF clips_dir THEN files ELSE {}]
    /\ UNCHANGED <<clip_suggestions, current_video_path, clips_dir, files, an, ex, cl>>

RefreshReturn ==
    /\ rf.pc = "done"
    /\ rf' = RfIdle
    /\ UNCHANGED <<clip_suggestions, current_video_path, clips_dir, files, an, ex, cl>>

(***************************************************************************)
(* The program: the UI runs one handler at a time (Spec); SpecAnalyze is   *)
(* the analyze handler alone over every response text.  SpecExtract,       *)
(* SpecOverlap and SpecTwoSessions follow.                                 *)
(***************************************************************************)
Quiet ==
    /\ an.pc = "idle"
    /\ \A t \in Sessions : ex[t].pc = "idle"
    /\ cl.pc = "idle"
    /\ rf.pc = "idle"

Next ==
    \/ Quiet /\ AnalyzeStart
    \/ CallTransient
    \/ CallFatal
    \/ CallResponds(CoreTexts)
    \/ AnalyzeReturn
    \/ Quiet /\ \E u \in Urls : ExtractStart(1, u)
    \/ DownloadFails(1)
    \/ DownloadSucceeds(1)
    \/ ItemRaises(1)
    \/ ItemEncodes(1)
    \/ ExtractFinish(1)
    \/ ExtractReturn(1)
    \/ Quiet /\ Clear
    \/ ClearReturn
    \/ Quiet /\ Refresh
    \/ RefreshReturn

Spec == Init /\ [][Next]_vars

NextAnalyze ==
    \/ AnalyzeStart
    \/ CallTransient
    \/ CallFatal
    \/ CallResponds(AllTexts)
    \/ AnalyzeReturn

SpecAnalyze == Init /\ [][NextAnalyze]_vars

(***************************************************************************)
(* extract_clips (and clear_clips_folder) over suggestions with any title: *)
(* clip_suggestions holds what an earlier analyze call stored.             *)
(***************************************************************************)
MaxTail == 2

TailChars == {"a", " ", "!"}
Pad(n) == [k \in 1..n |-> "a"]
PadLens == {0, title_limit - 1, title_limit}

\* titles around the limit of line 238: n times "a", then up to MaxTail characters
Titles == {Pad(n) \o tail : n \in PadLens, tail \in SeqsUpTo(TailChars, MaxTail)}

\* titles that hold what the file name is built with: digits and "_"
PairTitles ==
    {Absent, Str(<<"a">>), Str(<<"2", "_", "a">>), Str(<<"a", "_", "1">>),
     Str(<<"C", "l", "i", "p", " ", "2">>)}
Times == {<<1, 6>>, <<6, 16>>}

PairElems ==
    {JObject(Num(tm[1]), Num(tm[2]), title, Absent) : title \in PairTitles, tm \in Times}

SuggestionSets ==
    {JArray(<<JObject(Num(1), Num(6), Str(title), Absent)>>) : title \in Titles}
        \cup {JArray(<<a, b>>) : a \in PairElems, b \in PairElems \cup {AtomValue(OBJ_NOSTART)}}

InitExtract ==
    /\ clip_suggestions \in SuggestionSets
    /\ current_video_path = None
    /\ clips_dir = FALSE
    /\ files = {}
    /\ an = AnIdle
    /\ ex = [t \in Sessions |-> ExIdle]
    /\ cl = ClIdle
    /\ rf = RfIdle

NextExtract ==
    \/ Quiet /\ ExtractStart(1, "url1")
    \/ DownloadFails(1)
    \/ DownloadSucceeds(1)
    \/ ItemRaises(1)
    \/ ItemEncodes(1)
    \/ ExtractFinish(1)
    \/ ExtractReturn(1)
    \/ Quiet /\ Clear
    \/ ClearReturn

SpecExtract == InitExtract /\ [][NextExtract]_vars

(***************************************************************************)
(* Handlers running at once: nothing in the program keeps an analyze call  *)
(* and an extract call, or the extract calls of two browser sessions, from *)
(* overlapping.  Each step is one statement (or one blocking call) of one  *)
(* handler.                                                                *)
(*   SpecOverlap      an analyze call and the extract calls of one session *)
(*   SpecTwoSessions  the extract calls of two sessions, over suggestions  *)
(*                    that an earlier analyze call stored                  *)
(***************************************************************************)
OverlapTexts ==
    {BareText(<<AtomValue(OBJ_A), AtomValue(OBJ_B)>>),
     BareText(<<AtomValue(OBJ_INV), AtomValue(OBJ_NOSTART)>>),
     BareText(<<AtomValue(OBJ_B)>>)}

NextOverlap ==
    \/ AnalyzeStart
    \/ CallTransient
    \/ CallFatal
    \/ CallResponds(OverlapTexts)
    \/ AnalyzeReturn
    \/ \E u \in Urls : ExtractStart(1, u)
    \/ DownloadFails(1)
    \/ DownloadSucceeds(1)
    \/ ItemRaises(1)
    \/ ItemEncodes(1)
    \/ ExtractFinish(1)
    \/ ExtractReturn(1)

SpecOverlap == Init /\ [][NextOverlap]_vars

InitTwoSessions ==
    /\ clip_suggestions \in
          {JArray(<<AtomValue(OBJ_A), AtomValue(OBJ_B)>>),
           JArray(<<AtomValue(OBJ_NOSTART), AtomValue(OBJ_A)>>)}
    /\ current_video_path = None
    /\ clips_dir = FALSE
    /\ files = {}
    /\ an = AnIdle
    /\ ex = [t \in Sessions |-> ExIdle]
    /\ cl = ClIdle
    /\ rf = RfIdle

NextTwoSessions ==
    \/ \E t \in Sessions, u \in Urls : ExtractStart(t, u)
    \/ \E t \in Sessions : DownloadFails(t)
    \/ \E t \in Sessions : DownloadSucceeds(t)
    \/ \E t \in Sessions : ItemRaises(t)
    \/ \E t \in Sessions : ItemEncodes(t)
    \/ \E t \in Sessions : ExtractFinish(t)
    \/ \E t \in Sessions : ExtractReturn(t)

SpecTwoSessions == InitTwoSessions /\ [][NextTwoSessions]_vars

(***************************************************************************)
(* Properties                                                              *)
(***************************************************************************)
Indices(list) == {list[k].index : k \in 1..Len(list)}
Increasing(list) ==
    \A a, b \in 1..Len(list) : a < b => list[a].index < list[b].index
LastCall == an.calls[Len(an.calls)]

\* C1: when extract_clips has walked its loop and returned, the number of clips
\* created plus the number of errors is the number of suggestions it was given.
C1_TotalAccounting ==
    \A t \in Sessions :
        /\ ex[t].pc = "loop" =>
              Len(ex[t].created_clips) + Len(ex[t].errors) = ex[t].i
        /\ ex[t].result.status = "extracted" =>
              /\ Len(ex[t].created_clips) + Len(ex[t].errors) = Len(ex[t].items)
              /\ Len(ex[t].created_clips) + Len(ex[t].errors) = PyLen(clip_suggestions)
              /\ ex[t].result.clips = ex[t].created_clips

\* a batch of three has returned with a clip, a non-zero exit and an exception
C1_Witness ==
    /\ ex[1].result.status = "extracted"
    /\ Len(ex[1].items) = 3
    /\ Len(ex[1].created_clips) = 1
    /\ {ex[1].errors[k].what : k \in 1..Len(ex[1].errors)} = {"stderr", "exception"}

\* C2: the items are handled in list order, the encoder is run at most once per
\* item, a failing item i leaves exactly one error tagged i (counted from 1) and
\* the items after it are still handled; the clips keep the order of the items.
C2_FailureIsolation ==
    \A t \in Sessions :
        LET e == ex[t]
            made == [k \in 1..Len(e.created_clips) |-> [index |-> e.created_clips[k].index]]
        IN  (e.pc = "loop" \/ e.result.status = "extracted") =>
              /\ Increasing(e.invocations)
              /\ Increasing(made)
              /\ Increasing(e.errors)
              /\ Indices(made) \cup Indices(e.errors) = 1..e.i
              /\ Indices(made) \cap Indices(e.errors) = {}
              /\ \A k \in 1..Len(e.invocations) :
                    LET inv == e.invocations[k]
                    IN  /\ inv.index \in 1..e.i
                        /\ inv.ss = e.items[inv.index].start.n
                        /\ inv.rc = "zero" => inv.output \in
                              {e.created_clips[c] : c \in 1..Len(e.created_clips)}
                        /\ inv.rc = "nonzero" =>
                              [index |-> inv.index, what |-> "stderr"] \in
                              {e.errors[c] : c \in 1..Len(e.errors)}
                        /\ inv.rc = "raised" =>
                              [index |-> inv.index, what |-> "exception"] \in
                              {e.errors[c] : c \in 1..Len(e.errors)}
              /\ \A j \in 1..e.i :
                    ~Usable(e.items[j]) =>
                       /\ j \notin Indices(e.invocations)
                       /\ [index |-> j, what |-> "exception"] \in
                              {e.errors[c] : c \in 1..Len(e.errors)}
              /\ e.result.status = "extracted" => e.i = Len(e.items)

\* item 2 of 3 exits non-zero: two clips, those of items 1 and 3, and one error
C2_Witness ==
    /\ ex[1].result.status = "extracted"
    /\ Len(ex[1].items) = 3
    /\ [k \in 1..Len(ex[1].created_clips) |-> ex[1].created_clips[k].index] = <<1, 3>>
    /\ ex[1].errors = <<[index |-> 2, what |-> "stderr"]>>

\* C3: one analyze call asks the AI service at most 3 times; every call but the
\* last failed with a connection error; a response or another exception ends
\* the calls at once; each call either ends the action or uses up one attempt,
\* so the action ends with a response to parse or an error.
RetryBound ==
    /\ Len(an.calls) <= max_retries
    /\ \A k \in 1..(Len(an.calls) - 1) : an.calls[k] = "transient"
    /\ an.pc = "calling" =>
          /\ an.attempt < max_retries
          /\ Len(an.calls) = an.attempt
          /\ \A k \in 1..Len(an.calls) : an.calls[k] = "transient"
    /\ an.pc = "done" =>
          /\ Len(an.calls) = an.attempt + 1
          /\ LastCall = "fatal" => an.out.kind = "api_error"
          /\ LastCall = "transient" =>
                /\ Len(an.calls) = max_retries
                /\ an.out = Out("conn_failed", max_retries, <<>>)
          /\ LastCall = "ok" =>
                an.out.kind \in {"found", "raised", "parse_error", "no_array"}

C3_RetryBound ==
    /\ []RetryBound
    /\ [][an.pc = "calling" =>
            \/ an'.pc = "done"
            \/ an'.pc = "calling" /\ an'.attempt = an.attempt + 1]_an

\* the third call is made, after two connection errors, and is answered
C3_Witness ==
    /\ an.pc = "done"
    /\ an.calls = <<"transient", "transient", "ok">>
    /\ an.sleeps = <<2, 4>>

\* C4: an analyze call that fails (three connection errors, another service
\* error, no JSON array found, an exception while handling the parsed value)
\* leaves clip_suggestions as it was.
FailureKinds == {"conn_failed", "api_error", "no_array", "parse_error", "raised"}

C4_FailedProposeKeepsSuggestions ==
    [][(an.pc = "calling" /\ an'.pc = "done" /\ an'.out.kind \in FailureKinds) =>
          /\ clip_suggestions' = clip_suggestions
          /\ an'.out.kind = "conn_failed" => an'.out.n = 3 /\ Len(an'.calls) = 3]_vars

\* C5: the three strategies are tried in order up to the first that yields a
\* value; an error is returned only when all three fail, and it carries the
\* response text; a fenced block that is not valid JSON does not stop the
\* bracket search from being tried.
Yields(m) == m.found /\ json_loads(m.group).ok

C5_FallbackChain ==
    (an.pc = "done" /\ LastCall = "ok") =>
        LET text == an.response
            y1 == json_loads(text).ok
            y2 == Yields(fenced_search(text))
            y3 == Yields(bracket_search(text))
        IN  /\ an.out.kind \in {"parse_error", "no_array"} <=> ~y1 /\ ~y2 /\ ~y3
            /\ an.out.kind \in {"parse_error", "no_array"} => an.out.text = text
            /\ y1 => an.tried = <<1>> /\ clip_suggestions = json_loads(text).v
            /\ ~y1 /\ y2 =>
                  /\ an.tried = <<1, 2>>
                  /\ clip_suggestions = json_loads(fenced_search(text).group).v
            /\ ~y1 /\ ~y2 => an.tried = <<1, 2, 3>>
            /\ ~y1 /\ ~y2 /\ y3 =>
                  clip_suggestions = json_loads(bracket_search(text).group).v

\* C6: a valid array of suggestions is stored as it is, in its order, whether
\* the response is the array alone, prose with the array in a fenced block, or
\* prose around the array.
C6_ShapeIndependence ==
    (an.pc = "done" /\ LastCall = "ok") =>
        \A A \in ValidArrays :
            an.response \in {BareText(A), FencedText(A), EmbeddedText(A)} =>
                /\ clip_suggestions = JArray(A)
                /\ an.out.kind = "found"
                /\ an.out.n = Len(A)

\* C7: for a suggestion with end <= start the encoder is never run, no clip is
\* made, an error is recorded, and the rest of the batch is still handled.
NonPositive(clip) == Usable(clip) /\ clip.end.n <= clip.start.n

C7_NonPositiveDuration ==
    \A t \in Sessions :
        (ex[t].pc = "loop" \/ ex[t].result.status = "extracted") =>
            /\ \A j \in 1..ex[t].i :
                  NonPositive(ex[t].items[j]) =>
                      /\ j \notin Indices(ex[t].invocations)
                      /\ j \notin {ex[t].created_clips[c].index :
                                      c \in 1..Len(ex[t].created_clips)}
                      /\ j \in Indices(ex[t].errors)
            /\ ex[t].result.status = "extracted" => ex[t].i = Len(ex[t].items)

\* C8: clip_suggestions is always a list of records with numeric start and end
\* and end > start.
ValidSuggestion(v) ==
    /\ v.kind = "object"
    /\ v.start.k = "num"
    /\ v.end.k = "num"
    /\ v.end.n > v.start.n

C8_StoredSetValid ==
    /\ clip_suggestions.kind = "array"
    /\ \A k \in 1..Len(clip_suggestions.items) : ValidSuggestion(clip_suggestions.items[k])

\* C9: an extract call that finds clip_suggestions empty returns the error status
\* and no clips, downloads nothing, runs no encoder, and changes neither global.
C9_ExtractGuard ==
    [][\A t \in Sessions :
          (ex[t].pc = "idle" /\ ex'[t].pc # "idle" /\ clip_suggestions = JArray(<<>>)) =>
              /\ ex'[t].pc = "done"
              /\ ex'[t].result = [status |-> "no_suggestions", clips |-> <<>>]
              /\ ex'[t].fetches = 0
              /\ ex'[t].invocations = <<>>
              /\ current_video_path' = current_video_path
              /\ clip_suggestions' = clip_suggestions
              /\ files' = files]_vars

\* after a download, an analyze call stored an empty array and extract was asked again
C9_Witness ==
    /\ ex[1].result.status = "no_suggestions"
    /\ clip_suggestions = JArray(<<>>)
    /\ current_video_path # None

\* C10: when the download fails, extract_clips returns the error status and no
\* clips, runs no encoder, and changes neither global.
C10_FetchFailure ==
    [][\A t \in Sessions :
          (ex[t].pc = "download" /\ ex'[t].result.status = "download_error") =>
              /\ ex'[t].pc = "done"
              /\ ex'[t].result.clips = <<>>
              /\ ex'[t].invocations = <<>>
              /\ ex'[t].created_clips = <<>>
              /\ current_video_path' = current_video_path
              /\ clip_suggestions' = clip_suggestions
              /\ files' = files]_vars

\* a download fails after an earlier one succeeded: the earlier path is still there
C10_Witness ==
    /\ ex[1].result.status = "download_error"
    /\ current_video_path = PathOf("url1")
    /\ ex[1].url = "url2"

\* C11: extract_clips runs the download only when nothing has been downloaded
\* yet or the URL is not the one downloaded last; two successful extract calls
\* in a row on one URL download once.
C11_ConditionalFetch ==
    [][\A t \in Sessions :
          ex'[t].fetches = ex[t].fetches + 1 =>
              current_video_path # PathOf(ex[t].url)]_vars

\* C12: clip_suggestions changes only in the step in which an analyze call has
\* its response parsed; no step of extract_clips, clear_clips_folder or
\* refresh_clips_gallery changes it, and the loop of an extract call walks what
\* clip_suggestions holds, a clear in between or not.
C12_OnlyProposeWrites ==
    [][/\ clip_suggestions' # clip_suggestions =>
              /\ an.pc = "calling"
              /\ an'.pc = "done"
              /\ an'.calls[Len(an'.calls)] = "ok"
       /\ (ex' # ex \/ cl' # cl \/ rf' # rf) => clip_suggestions' = clip_suggestions
       /\ \A t \in Sessions :
              (ex[t].pc = "download" /\ ex'[t].pc = "loop") =>
                  ex'[t].items = IterItems(clip_suggestions')]_vars

\* a clear has removed the clips of an earlier extract and the two suggestions
\* are still stored
C12_Witness ==
    /\ cl.pc = "done"
    /\ cl.out = "cleared"
    /\ cl.removed # {}
    /\ clip_suggestions = JArray(<<AtomValue(OBJ_A), AtomValue(OBJ_INV)>>)

\* C13: clear_clips_folder tries to delete every file of the clips directory; a
\* delete that fails is reported in the returned status and stops nothing:
\* when the call has returned, every file but those whose own delete failed
\* is gone.
C13_BestEffortClear ==
    (cl.pc = "done" /\ cl.out # "no_folder") =>
        /\ cl.out = "error" <=> cl.failed # {}
        /\ cl.out = "cleared" <=> cl.failed = {}
        /\ files \subseteq cl.failed

\* every file name derived so far: the files of the clips directory and the
\* outputs of the encoder invocations of the running extract calls
Derived ==
    files \cup UNION {{ex[t].invocations[k].output : k \in 1..Len(ex[t].invocations)} :
                         t \in Sessions}

NamePattern(index, title, start, end) ==
    <<"c", "l", "i", "p", "_">> \o PyStr(index) \o <<"_">> \o title \o <<"_">>
        \o PyStr(start) \o <<"_">> \o PyStr(end) \o <<".", "m", "p", "4">>

\* C14: the output file name depends on the index (from 1), the title, start and
\* end alone: it is clip_{index}_{sanitized title}_{start}_{end}.mp4, and two
\* derivations from the same four values, in one extract call or in two, with
\* the clips directory in any state, give the same name.
C14_FilenameDeterminism ==
    /\ \A f, g \in Derived :
          (f.index = g.index /\ f.title = g.title /\ f.start = g.start /\ f.end = g.end)
              => f.name = g.name
    /\ \A t \in Sessions : \A k \in 1..Len(ex[t].invocations) :
          LET inv == ex[t].invocations[k]
              clip == ex[t].items[inv.index]
          IN  inv.output.name =
                  NamePattern(inv.index, safe_title(TitleOf(clip, inv.index - 1)),
                              clip.start.n, clip.end.n)

\* the name of a file that an earlier extract call left in the directory is
\* derived again, by a call that has made no file itself
C14_Witness ==
    /\ ex[1].pc = "loop"
    /\ ex[1].created_clips = <<>>
    /\ \E k \in 1..Len(ex[1].invocations) : ex[1].invocations[k].output \in files

\* C16: in one extract call the file names derived for two different positions
\* of the list differ, whatever the titles, starts and ends.
C16_BatchUniqueness ==
    \A t \in Sessions : \A j, k \in 1..Len(ex[t].invocations) :
        j # k => ex[t].invocations[j].output.name # ex[t].invocations[k].output.name

\* two suggestions with the same title, start and end were both encoded
C16_Witness ==
    /\ Len(ex[1].invocations) = 2
    /\ ex[1].items[1] = ex[1].items[2]
    /\ ex[1].invocations[1].output.title = ex[1].invocations[2].output.title
    /\ Cardinality(files) = 2

\* C17: the title part of the file name holds only letters, digits, spaces,
\* hyphens and underscores, has at most 30 characters, and does not end in a
\* space.
Sanitized(title) ==
    /\ \A k \in 1..Len(title) : title[k] \in KeptChars
    /\ Len(title) <= title_limit
    /\ title # <<>> => title[Len(title)] # " "

C17_TitleSanitization ==
    \A t \in Sessions : \A k \in 1..Len(ex[t].invocations) :
        Sanitized(ex[t].invocations[k].output.title)

RECURSIVE Sum(_)
Sum(seq) == IF seq = <<>> THEN 0 ELSE Head(seq) + Sum(Tail(seq))

\* C15: in one analyze call the wait before retry k is 2 * 2^(k-1) (2, then 4);
\* there is one wait per failed attempt that is retried and none after the
\* last attempt; the waits add up to no more than 2 * 2^(3-1) = 8.
C15_BackoffSchedule ==
    /\ \A k \in 1..Len(an.sleeps) : an.sleeps[k] = base_retry_delay * 2 ^ (k - 1)
    /\ Len(an.sleeps) <= max_retries - 1
    /\ an.pc = "calling" => Len(an.sleeps) = Len(an.calls)
    /\ an.pc = "done" => Len(an.sleeps) = Len(an.calls) - 1
    /\ Sum(an.sleeps) <= base_retry_delay * 2 ^ (max_retries - 1)

\* three connection errors: the call gave up after waiting 2 and 4
C15_Witness ==
    /\ an.out.kind = "conn_failed"
    /\ an.calls = <<"transient", "transient", "transient">>
    /\ an.sleeps = <<2, 4>>

\* C18: after an analyze call that found suggestions, every stored suggestion
\* has a title and a description: an element sent without a title has the
\* title "Clip k", k its position from 1, and an element sent without a
\* description has the empty description.
WithDefaults(e, k) ==
    [e EXCEPT !.title = IF @ = Absent THEN Str(<<"C", "l", "i", "p", " ">> \o PyStr(k))
                        ELSE @,
              !.description = IF @ = Absent THEN Str(<<>>) ELSE @]

C18_ElementDefaults ==
    (an.pc = "done" /\ an.out.kind = "found" /\ clip_suggestions.kind = "array") =>
        LET stored == clip_suggestions.items
        IN  /\ \A k \in 1..Len(stored) :
                  stored[k].kind = "object" =>
                      stored[k].title # Absent /\ stored[k].description # Absent
            /\ \A A \in SeqsUpTo({AtomValue(OBJ_A), AtomValue(OBJ_B)}, MaxLen) :
                  an.response \in {BareText(A), FencedText(A), EmbeddedText(A)} =>
                      stored = [k \in 1..Len(A) |-> WithDefaults(A[k], k)]

\* what an extract call has done so far is the handling, in order, of the first
\* i elements of the list it entered its loop with
Handled(e) ==
    /\ Indices(e.invocations) \cup Indices(e.errors) = 1..e.i
    /\ \A j \in 1..e.i :
          IF Usable(e.items[j])
          THEN \E k \in 1..Len(e.invocations) :
                  /\ e.invocations[k].index = j
                  /\ e.invocations[k].ss = e.items[j].start.n
                  /\ e.invocations[k].t = e.items[j].end.n - e.items[j].start.n
                  /\ e.invocations[k].output = output_path(e.items[j], j - 1)
          ELSE /\ j \notin Indices(e.invocations)
               /\ [index |-> j, what |-> "exception"] \in
                      {e.errors[c] : c \in 1..Len(e.errors)}
    /\ e.result.status = "extracted" => e.i = Len(e.items)

\* C19: an analyze call that stores new suggestions while an extract call is in
\* its loop does not change what that extract call handles: the elements that
\* clip_suggestions held when the loop was entered, all of them, in order.
C19_Snapshot ==
    /\ [](\A t \in Sessions :
            (ex[t].pc = "loop" \/ ex[t].result.status = "extracted") => Handled(ex[t]))
    /\ [][\A t \in Sessions :
            /\ (ex[t].pc = "download" /\ ex'[t].pc = "loop") =>
                   ex'[t].items = IterItems(clip_suggestions)
            /\ (ex[t].pc = "loop" /\ ex'[t].pc # "idle") =>
                   ex'[t].items = ex[t].items]_vars

\* an analyze call has stored one suggestion while the extract call, one item
\* of two handled, is in its loop
C19_Witness ==
    /\ ex[1].pc = "loop"
    /\ ex[1].i = 1
    /\ ex[1].items = <<AtomValue(OBJ_A), AtomValue(OBJ_B)>>
    /\ an.pc = "done"
    /\ an.out.kind = "found"
    /\ clip_suggestions = JArray(<<AtomValue(OBJ_B)>>)

\* C20: every encoder invocation of an extract call reads the file that the
\* download of that same call returned, whatever another extract call on
\* another URL does in between.
C20_SingleSource ==
    \A t \in Sessions : \A k \in 1..Len(ex[t].invocations) :
        ex[t].invocations[k].input = PathOf(ex[t].url)

====
